---------------------------- MODULE Spec2Model ----------------------------
(***************************************************************************)
(* Model of the reqfile compiler (parse/reqfile.rs), the ReqTree it builds *)
(* (util/reqtree.rs) and the Requirement algebra it manipulates            *)
(* (model/req.rs) of the deep-sdk crate.                                   *)
(*                                                                         *)
(* A reqfile is a sequence of raw lines.  parse_reqfile_str classifies     *)
(* them, and validate_and_transform runs the stages build_index,           *)
(* validate_no_ambiguous_anonymous, resolve_dependencies, build_req_tree,  *)
(* validate_tree, build_optional_groups, apply_force_required and          *)
(* collect_required_reqs, stopping at the first error.                     *)
(***************************************************************************)
EXTENDS Integers, Sequences, FiniteSets, TLC

VARIABLES
    content,      \* the input text, as its sequence of raw lines
    pc,           \* the stage of the compiler that runs next
    lines,        \* Vec<ParsedLine>
    index,        \* ReqfileIndex
    tree,         \* ReqTree
    optional,     \* Vec<OptionalGroup>
    marked_opt,   \* HashSet<String>
    result,       \* Result<Reqfile>, or a panic
    cycle,        \* the last answer of ReqTree::find_cycle
    inserts,      \* the number of ReqTree::insert calls made on a tree built directly
    payload,      \* the Reqfile handed to gen_reqfile, once it has been
    call,         \* a call of a Requirement method: its receiver, arguments and answer
    shrine        \* the locals of a running shrine_order_dwb

\* the variables of the calls made beside the compiler
callVars == <<payload, call, shrine>>

vars == <<content, pc, lines, index, tree, optional, marked_opt, result, cycle, inserts,
          callVars>>

-----------------------------------------------------------------------------
(* Bounds of the model *)

\* longest reqfile, in raw lines
MaxLines == 3

\* most clauses of a Requirement built directly
MaxClauses == 2

\* number of ReqTree::insert calls of a tree built directly
MaxInserts == 3

-----------------------------------------------------------------------------
(* Sequence helpers *)

RECURSIVE SetToSeq(_)
SetToSeq(S) ==
    IF S = {} THEN <<>>
    ELSE LET x == CHOOSE y \in S : TRUE IN <<x>> \o SetToSeq(S \ {x})

Range(s) == {s[i] : i \in DOMAIN s}

SeqsUpTo(S, n) == UNION {[1..k -> S] : k \in 0..n}

RECURSIVE JoinStr(_, _)
\* slice::join / Vec<String>::join
JoinStr(ss, sep) ==
    IF Len(ss) = 0 THEN ""
    ELSE IF Len(ss) = 1 THEN ss[1]
    ELSE ss[1] \o sep \o JoinStr(Tail(ss), sep)

Perms(S) == {p \in [1..Cardinality(S) -> S] : Range(p) = S}

-----------------------------------------------------------------------------
(* model/stat.rs, model/req.rs: Stat, Atom, Clause, Requirement *)

\* Stat::short_name, for the stats the model uses
short_name(stat) ==
    CASE stat = "Strength" -> "STR"
      [] stat = "Fortitude" -> "FTD"
      [] stat = "Agility" -> "AGL"
      [] stat = "Frostdraw" -> "ICE"
      [] stat = "Flamecharm" -> "FLM"
      [] stat = "Total" -> "TTL"

\* the discriminants of enum Stat, which order a BTreeSet<Stat>
StatOrd(stat) ==
    CASE stat = "Strength" -> 0
      [] stat = "Fortitude" -> 1
      [] stat = "Agility" -> 2
      [] stat = "Frostdraw" -> 9
      [] stat = "Flamecharm" -> 10
      [] stat = "Total" -> 16

\* impl Display for Reducability
ReducabilityStr(r) == IF r = "Reducible" THEN "r" ELSE "s"

\* derive(Ord) on Reducability: Reducible < Strict
ReducabilityOrd(r) == IF r = "Reducible" THEN 0 ELSE 1

RECURSIVE SortStats(_)
\* iteration order of a BTreeSet<Stat>
SortStats(S) ==
    IF S = {} THEN <<>>
    ELSE LET m == CHOOSE x \in S : \A y \in S : StatOrd(x) <= StatOrd(y)
         IN <<m>> \o SortStats(S \ {m})

RECURSIVE SeqLess(_, _)
\* lexicographic order of two sequences of naturals
SeqLess(s, t) ==
    IF Len(t) = 0 THEN FALSE
    ELSE IF Len(s) = 0 THEN TRUE
    ELSE IF s[1] # t[1] THEN s[1] < t[1]
    ELSE SeqLess(Tail(s), Tail(t))

StatOrdSeq(S) == LET ss == SortStats(S) IN [i \in DOMAIN ss |-> StatOrd(ss[i])]

\* derive(Ord) on Atom: (reducability, value, stats)
AtomLess(x, y) ==
    IF x.reducability # y.reducability
    THEN ReducabilityOrd(x.reducability) < ReducabilityOrd(y.reducability)
    ELSE IF x.value # y.value THEN x.value < y.value
    ELSE SeqLess(StatOrdSeq(x.stats), StatOrdSeq(y.stats))

RECURSIVE SortAtoms(_)
\* iteration order of a BTreeSet<Atom>
SortAtoms(S) ==
    IF S = {} THEN <<>>
    ELSE LET m == CHOOSE x \in S : \A y \in S \ {x} : AtomLess(x, y)
         IN <<m>> \o SortAtoms(S \ {m})

\* Atom::is_empty
AtomIsEmpty(atom) == atom.stats = {} /\ atom.value = 0

\* impl Display for Atom
AtomStr(atom) ==
    LET ss == SortStats(atom.stats) IN
    IF Len(ss) = 1
    THEN ToString(atom.value) \o ReducabilityStr(atom.reducability) \o " "
            \o short_name(ss[1])
    ELSE JoinStr([i \in DOMAIN ss |-> short_name(ss[i])], " + ") \o " = "
            \o ToString(atom.value) \o ReducabilityStr(atom.reducability)

\* Clause::is_empty
ClauseIsEmpty(clause) == ~ \E a \in clause.atoms : ~AtomIsEmpty(a)

\* impl Display for Clause
ClauseStr(clause) ==
    LET shown == SelectSeq(SortAtoms(clause.atoms), LAMBDA a : ~AtomIsEmpty(a))
    IN JoinStr([i \in DOMAIN shown |-> AtomStr(shown[i])],
               IF clause.clause_type = "And" THEN ", " ELSE " OR ")

\* Option<String>::None for Requirement.name (an identifier is never empty)
NoName == ""

\* Requirement::is_empty
ReqIsEmpty(req) == ~ \E i \in DOMAIN req.clauses : ~ClauseIsEmpty(req.clauses[i])

\* impl Display for Requirement
ReqStr(req) ==
    LET shown == SelectSeq(req.clauses, LAMBDA c : ~ClauseIsEmpty(c)) IN
    (IF Len(req.prereqs) > 0 THEN JoinStr(req.prereqs, ", ") \o " => " ELSE "")
    \o (IF req.name # NoName THEN req.name \o " := " ELSE "")
    \o (IF ReqIsEmpty(req) THEN "()"
        ELSE JoinStr([i \in DOMAIN shown |-> ClauseStr(shown[i])], ", "))

\* Requirement::name_or_default
name_or_default(req) == IF req.name # NoName THEN req.name ELSE ReqStr(req)

\* impl PartialEq for Requirement
ReqEq(x, y) ==
    /\ Len(x.clauses) = Len(y.clauses)
    /\ \A i \in DOMAIN x.clauses : \E j \in DOMAIN y.clauses : x.clauses[i] = y.clauses[j]
    /\ \A j \in DOMAIN y.clauses : \E i \in DOMAIN x.clauses : y.clauses[j] = x.clauses[i]
    /\ name_or_default(x) = name_or_default(y)

\* derive(Hash) on Requirement: what the fields feed to the Hasher, name,
\* prereqs and clauses in their Vec order (a BTreeSet feeds its elements in
\* sorted order, so a set stands for what it feeds).  Two requirements hash
\* alike when they feed the same data; a collision of the hasher on different
\* data is left out.
hash(req) == <<req.name, req.prereqs, req.clauses>>

-----------------------------------------------------------------------------
(* util/statmap.rs: StatMap, a function on the set of the stats it holds *)

\* Stat::is_attunement
is_attunement(stat) ==
    stat \in {"Frostdraw", "Flamecharm", "Thundercall", "Galebreathe", "Shadowcast",
              "Ironsing", "Bloodrend"}

RECURSIVE SumOver(_, _)
\* Iterator::sum over the values of the keys in S
SumOver(f, S) ==
    IF S = {} THEN 0
    ELSE LET k == CHOOSE x \in S : TRUE IN f[k] + SumOver(f, S \ {k})

\* max of two integers
Max(a, b) == IF a >= b THEN a ELSE b

\* StatMap::cost
cost(stats) ==
    SumOver(stats, DOMAIN stats)
    - Max(Cardinality({s \in DOMAIN stats : is_attunement(s) /\ stats[s] > 0}) - 1, 0)

\* StatMap::get
get(stats, stat) == IF stat \in DOMAIN stats THEN stats[stat] ELSE 0

\* a reading that treats Total like any other key of the map
ReadStat_TotalIsKey(stats, stat) == get(stats, stat)

\* the value Atom::satisfied_by reads for one stat of the atom
ReadStat(stats, stat) == IF stat = "Total" THEN cost(stats) ELSE get(stats, stat)

\* Atom::satisfied_by
AtomSatisfiedBy(atom, stats) ==
    SumOver([s \in atom.stats |-> ReadStat(stats, s)], atom.stats) >= atom.value

\* Clause::satisfied_by
ClauseSatisfiedBy(clause, stats) ==
    IF clause.clause_type = "And"
    THEN \A a \in clause.atoms : AtomSatisfiedBy(a, stats)
    ELSE \E a \in clause.atoms : AtomSatisfiedBy(a, stats)

\* Requirement::satisfied_by
satisfied_by(req, stats) ==
    \A i \in DOMAIN req.clauses : ClauseSatisfiedBy(req.clauses[i], stats)

-----------------------------------------------------------------------------
(* Maps: HashMap<String, _> as a function on the set of its keys *)

EmptyMap == [k \in {} |-> 0]

Put(f, k, v) == [x \in (DOMAIN f) \cup {k} |-> IF x = k THEN v ELSE f[x]]

-----------------------------------------------------------------------------
(* parse/reqfile.rs: lines of a reqfile *)

\* BaseReqfileLine::Requirement
ReqBase(req) == [type |-> "Requirement", req |-> req]

\* BaseReqfileLine::DependencyWithIdentifier
DepBase(prereqs, dependent) ==
    [type |-> "DependencyWithIdentifier", prereqs |-> prereqs, dependent |-> dependent]

\* the variants of ReqfileLine; weight is read of an Optional line only
Unspecified(base) == [variant |-> "Unspecified", base |-> base, weight |-> 0]
ForceRequired(base) == [variant |-> "ForceRequired", base |-> base, weight |-> 0]
OptionalLine(base, weight) == [variant |-> "Optional", base |-> base, weight |-> weight]

\* ReqfileLine::is_explicit_optional
is_explicit_optional(rf_line) == rf_line.variant = "Optional"

IsReqLine(line) == line.rf_line.base.type = "Requirement"

\* Result<_>: Err(DeepError::Reqfile { line, message }), the message as its
\* format string and the names put into it
Err(line, message, names) ==
    [kind |-> "Err", line |-> line, message |-> message, names |-> names]

Ok(reqfile) == [kind |-> "Ok", reqfile |-> reqfile]

\* an abort of the process (a panic), which returns nothing
Panic == [kind |-> "Panic"]

NoResult == [kind |-> "None"]

RECURSIVE ParseLoop(_, _, _, _)
\* the loop of parse_reqfile_str over content.lines().enumerate(); i is the
\* 1-based position of the raw line, so the loop's own i is i - 1
ParseLoop(text, i, current, acc) ==
    IF i > Len(text) THEN [err |-> NoResult, lines |-> acc]
    ELSE LET raw == text[i] IN
         CASE raw.kind = "Blank" -> ParseLoop(text, i + 1, current, acc)
           [] raw.kind = "Free" -> ParseLoop(text, i + 1, "Free", acc)
           [] raw.kind = "Post" -> ParseLoop(text, i + 1, "Post", acc)
           [] raw.kind = "Bad" ->
                [err |-> Err((i - 1) + 1, "Parse error", <<>>), lines |-> acc]
           [] raw.kind = "Line" ->
                ParseLoop(text, i + 1, current,
                          Append(acc, [rf_line |-> raw.rf_line,
                                       line_num |-> i - 1,
                                       timing |-> current]))

parse_reqfile_str(text) == ParseLoop(text, 1, "Free", <<>>)

\* str_to_idx of build_index: collect() of (name_or_default, i) pairs into a
\* HashMap keeps the last index of each key.  Indexes into lines are 1-based.
StrToIdx(ls) ==
    LET keys == {name_or_default(ls[i].rf_line.base.req) :
                    i \in {j \in DOMAIN ls : IsReqLine(ls[j])}}
    IN [k \in keys |->
          CHOOSE i \in DOMAIN ls :
             /\ IsReqLine(ls[i])
             /\ name_or_default(ls[i].rf_line.base.req) = k
             /\ \A j \in DOMAIN ls :
                  (IsReqLine(ls[j]) /\ name_or_default(ls[j].rf_line.base.req) = k)
                     => j <= i]

RECURSIVE BuildIndexLoop(_, _, _, _)
\* the second loop of build_index
BuildIndexLoop(ls, i, named, deps) ==
    IF i > Len(ls)
    THEN [err |-> NoResult,
          index |-> [named |-> named, str_to_idx |-> StrToIdx(ls),
                     dependency_statements |-> deps]]
    ELSE LET line == ls[i]
             base == line.rf_line.base
         IN IF base.type = "DependencyWithIdentifier"
            THEN IF line.rf_line.variant = "Unspecified"
                 THEN BuildIndexLoop(ls, i + 1, named,
                         Append(deps, [prereqs |-> base.prereqs,
                                       dependent |-> base.dependent,
                                       line_num |-> line.line_num]))
                 ELSE [err |-> Err(line.line_num,
                                   "Optional annotations must be used at the requirement definition",
                                   <<>>),
                       index |-> EmptyMap]
            ELSE IF base.req.name # NoName
                 THEN IF base.req.name \in DOMAIN named
                      THEN [err |-> Err(line.line_num + 1, "Duplicate identifier",
                                        <<base.req.name>>),
                            index |-> EmptyMap]
                      ELSE BuildIndexLoop(ls, i + 1, Put(named, base.req.name, i), deps)
                 ELSE BuildIndexLoop(ls, i + 1, named, deps)

build_index(ls) == BuildIndexLoop(ls, 1, EmptyMap, <<>>)

\* the closure of validate_no_ambiguous_anonymous: another anonymous line
\* of the same textual form, one of the two with prerequisites, that differs
\* from req under Requirement's equality
OtherAnon(ls, req) ==
    \E j \in DOMAIN ls :
        /\ IsReqLine(ls[j])
        /\ LET other_req == ls[j].rf_line.base.req IN
             /\ other_req.name = NoName
             /\ name_or_default(other_req) = name_or_default(req)
             /\ (Len(other_req.prereqs) > 0 \/ Len(req.prereqs) > 0)
             /\ ~ReqEq(other_req, req)

validate_no_ambiguous_anonymous(ls) ==
    LET bad == {i \in DOMAIN ls :
                  /\ IsReqLine(ls[i])
                  /\ ls[i].rf_line.base.req.name = NoName
                  /\ OtherAnon(ls, ls[i].rf_line.base.req)}
    IN IF bad = {} THEN NoResult
       ELSE LET i == CHOOSE k \in bad : \A l \in bad : k <= l
            IN Err(ls[i].line_num,
                   "You may not have duplicate anonymous requirements if either of them have prerequisites",
                   <<name_or_default(ls[i].rf_line.base.req)>>)

\* a resolver that keeps only the first prerequisite of the statement
SetPrereqs_FirstOnly(ls, vec_idx, prereqs) ==
    [ls EXCEPT ![vec_idx].rf_line.base.req.prereqs = <<prereqs[1]>>]

\* req.prereqs = prereqs.clone() on the line at vec_idx
SetPrereqs(ls, vec_idx, prereqs) ==
    [ls EXCEPT ![vec_idx].rf_line.base.req.prereqs = prereqs]

\* a resolver that never finds earlier prerequisites on the target
HasPrereqs_Never(ls, vec_idx) == FALSE

\* !req.prereqs.is_empty() on the line at vec_idx
HasPrereqs(ls, vec_idx) == Len(ls[vec_idx].rf_line.base.req.prereqs) > 0

RECURSIVE ResolveLoop(_, _, _)
\* the loop of resolve_dependencies over index.dependency_statements
ResolveLoop(ls, idx, k) ==
    IF k > Len(idx.dependency_statements) THEN [err |-> NoResult, lines |-> ls]
    ELSE LET st == idx.dependency_statements[k]
             name == st.dependent
         IN IF name \notin DOMAIN idx.named
            THEN [err |-> Err(st.line_num, "Dependent: no variable named", <<name>>),
                  lines |-> ls]
            ELSE IF \E p \in DOMAIN st.prereqs : st.prereqs[p] \notin DOMAIN idx.named
            THEN [err |-> Err(st.line_num, "Prerequisite: no variable named", <<name>>),
                  lines |-> ls]
            ELSE LET vec_idx == idx.named[name] IN
                 IF HasPrereqs(ls, vec_idx)
                 THEN [err |-> Err(st.line_num, "has multiple prerequisite assignments",
                                   <<name>>),
                       lines |-> ls]
                 ELSE ResolveLoop(SetPrereqs(ls, vec_idx, st.prereqs), idx, k + 1)

resolve_dependencies(ls, idx) == ResolveLoop(ls, idx, 1)

-----------------------------------------------------------------------------
(* util/reqtree.rs: ReqTree *)

\* ReqTree::new
NewTree == [reqs |-> EmptyMap, dependents |-> EmptyMap]

RECURSIVE AddDependents(_, _, _, _)
\* the loop of ReqTree::insert over req.prereqs
AddDependents(deps, prereqs, i, name) ==
    IF i > Len(prereqs) THEN deps
    ELSE LET p == prereqs[i]
             old == IF p \in DOMAIN deps THEN deps[p] ELSE {}
         IN AddDependents(Put(deps, p, old \cup {name}), prereqs, i + 1, name)

\* ReqTree::insert
TreeInsert(t, req) ==
    LET name == name_or_default(req) IN
    [reqs |-> Put(t.reqs, name, req),
     dependents |-> AddDependents(t.dependents, req.prereqs, 1, name)]

RECURSIVE PrereqsBfs(_, _, _)
\* the while loop of ReqTree::all_prereqs
PrereqsBfs(t, queue, visited) ==
    IF Len(queue) = 0 THEN visited
    ELSE LET current == Head(queue) IN
         IF current \notin visited /\ current \in DOMAIN t.reqs
         THEN PrereqsBfs(t, Tail(queue) \o t.reqs[current].prereqs,
                         visited \cup {current})
         ELSE PrereqsBfs(t, Tail(queue), visited \cup {current})

\* ReqTree::all_prereqs
all_prereqs(t, name) ==
    PrereqsBfs(t, IF name \in DOMAIN t.reqs THEN t.reqs[name].prereqs ELSE <<>>, {})

\* a search that stops at the direct dependents
DependentsBfs_DirectOnly(t, queue, visited) ==
    visited \cup {queue[i] : i \in DOMAIN queue}

RECURSIVE DependentsBfs(_, _, _)
\* the while loop of ReqTree::all_dependents; a HashSet is queued in some
\* order, which the visited set does not depend on
DependentsBfs(t, queue, visited) ==
    IF Len(queue) = 0 THEN visited
    ELSE LET current == Head(queue) IN
         IF current \notin visited /\ current \in DOMAIN t.dependents
         THEN DependentsBfs(t, Tail(queue) \o SetToSeq(t.dependents[current]),
                            visited \cup {current})
         ELSE DependentsBfs(t, Tail(queue), visited \cup {current})

\* ReqTree::all_dependents
all_dependents(t, name) ==
    DependentsBfs(t, IF name \in DOMAIN t.dependents
                     THEN SetToSeq(t.dependents[name]) ELSE <<>>, {})

\* Option<Vec<String>>::None of find_cycle (a reported cycle is never empty)
NoCycle == <<>>

\* path.iter().position(|n| n == name).unwrap()
Position(path, name) == CHOOSE i \in DOMAIN path :
                            path[i] = name /\ \A j \in 1..(i - 1) : path[j] # name

\* a cycle_visit that reports the whole recursion path
CycleSuffix_WholePath(path, name) == path

\* Some(path[idx..].to_vec()) of cycle_visit
CycleSuffix(path, name) == SubSeq(path, Position(path, name), Len(path))

RECURSIVE cycle_visit(_, _, _)
RECURSIVE VisitPrereqs(_, _, _, _)

\* ReqTree::cycle_visit; st holds visited, stack, path and the cycle found
cycle_visit(t, name, st) ==
    IF name \in st.stack
    THEN [st EXCEPT !.found = CycleSuffix(st.path, name)]
    ELSE IF name \in st.visited THEN st
    ELSE LET entered == [st EXCEPT !.visited = @ \cup {name},
                                   !.stack = @ \cup {name},
                                   !.path = Append(@, name)]
             after == IF name \in DOMAIN t.reqs
                      THEN VisitPrereqs(t, t.reqs[name].prereqs, 1, entered)
                      ELSE entered
         IN IF after.found # NoCycle THEN after
            ELSE [after EXCEPT !.stack = @ \ {name},
                               !.path = SubSeq(@, 1, Len(@) - 1)]

\* the loop of cycle_visit over req.prereqs
VisitPrereqs(t, prereqs, i, st) ==
    IF i > Len(prereqs) THEN st
    ELSE LET after == cycle_visit(t, prereqs[i], st) IN
         IF after.found # NoCycle THEN after
         ELSE VisitPrereqs(t, prereqs, i + 1, after)

RECURSIVE FindCycleLoop(_, _, _, _)

\* a find_cycle that returns after the visit of its first key
FindCycleLoop_FirstKeyOnly(t, keys, i, st) ==
    IF i > Len(keys) THEN NoCycle
    ELSE cycle_visit(t, keys[i], st).found

\* the loop of find_cycle over self.reqs.keys(), taken in the order keys
FindCycleLoop(t, keys, i, st) ==
    IF i > Len(keys) THEN NoCycle
    ELSE LET after == cycle_visit(t, keys[i], st) IN
         IF after.found # NoCycle THEN after.found
         ELSE FindCycleLoop(t, keys, i + 1, after)

\* ReqTree::find_cycle, the HashMap's keys iterated in the order keys
find_cycle(t, keys) ==
    FindCycleLoop(t, keys, 1,
                  [visited |-> {}, stack |-> {}, path |-> <<>>, found |-> NoCycle])

\* every answer find_cycle can give: a HashMap iterates in an arbitrary order
FindCycleAnswers(t) == {find_cycle(t, keys) : keys \in Perms(DOMAIN t.reqs)}

-----------------------------------------------------------------------------
(* parse/reqfile.rs: the stages after dependency resolution *)

RECURSIVE BuildTreeLoop(_, _, _)
BuildTreeLoop(ls, i, t) ==
    IF i > Len(ls) THEN t
    ELSE BuildTreeLoop(ls, i + 1,
                       IF IsReqLine(ls[i]) THEN TreeInsert(t, ls[i].rf_line.base.req)
                       ELSE t)

build_req_tree(ls) == BuildTreeLoop(ls, 1, NewTree)

\* the dependents of the optional line at i whose own line (by str_to_idx) is
\* not explicitly optional
RequiredDependents(ls, t, str_to_idx, i) ==
    LET req == ls[i].rf_line.base.req IN
    IF ls[i].rf_line.variant = "Optional" /\ IsReqLine(ls[i]) /\ req.name # NoName
    THEN {d \in all_dependents(t, req.name) :
             ~is_explicit_optional(ls[str_to_idx[d]].rf_line)}
    ELSE {}

\* the second half of validate_tree: the first optional line with a required
\* dependent is reported, with whichever such dependent the HashSet yields first
OptionalCheck(ls, t, str_to_idx) ==
    LET bad == {i \in DOMAIN ls : RequiredDependents(ls, t, str_to_idx, i) # {}} IN
    IF bad = {} THEN {NoResult}
    ELSE LET i == CHOOSE k \in bad : \A l \in bad : k <= l IN
         {Err(ls[i].line_num, "was declared as optional, however one of its dependents are required",
              <<ls[i].rf_line.base.req.name, d>>) :
            d \in RequiredDependents(ls, t, str_to_idx, i)}

\* a validate_tree that looks for a required dependent before it looks for a
\* cycle
validate_tree_OptionalFirst(ls, t, str_to_idx) ==
    LET answers == FindCycleAnswers(t)
        first == OptionalCheck(ls, t, str_to_idx)
    IN (first \ {NoResult})
       \cup (IF NoResult \in first
             THEN {Err(0, "Prereqs cannot be dependent on each other. Found cycle: "
                            \o JoinStr(c, " => "), c) : c \in answers \ {NoCycle}}
                  \cup (IF NoCycle \in answers THEN {NoResult} ELSE {})
             ELSE {})

\* validate_tree: the set of its possible answers (NoResult is Ok(()))
validate_tree(ls, t, str_to_idx) ==
    LET answers == FindCycleAnswers(t) IN
    {Err(0, "Prereqs cannot be dependent on each other. Found cycle: "
                \o JoinStr(c, " => "), c) :
        c \in answers \ {NoCycle}}
    \cup (IF NoCycle \in answers THEN OptionalCheck(ls, t, str_to_idx) ELSE {})

\* a walk of the direct prerequisites only
ClosureOf_DirectOnly(ls, t, i) ==
    Range(ls[i].rf_line.base.req.prereqs) \cup {name_or_default(ls[i].rf_line.base.req)}

\* prereqs*(R) and R, the names build_optional_groups and apply_force_required
\* walk for the line at i
ClosureOf(ls, t, i) ==
    LET name == name_or_default(ls[i].rf_line.base.req) IN
    all_prereqs(t, name) \cup {name}

\* OptionalGroup::get_set(timing) as the members of one side
GroupSide(names, ls, str_to_idx, timing) ==
    {ls[str_to_idx[n]].rf_line.base.req :
        n \in {m \in names : ls[str_to_idx[m]].timing = timing}}

RECURSIVE OptionalGroupsLoop(_, _, _, _, _, _)
\* the loop of build_optional_groups; str_to_idx[req] panics on a missing key
OptionalGroupsLoop(ls, t, str_to_idx, i, groups, marked) ==
    IF i > Len(ls) THEN [panic |-> FALSE, optional |-> groups, marked_opt |-> marked]
    ELSE IF ls[i].rf_line.variant = "Optional" /\ IsReqLine(ls[i])
    THEN LET names == ClosureOf(ls, t, i) IN
         IF \E n \in names : n \notin DOMAIN str_to_idx
         THEN [panic |-> TRUE, optional |-> groups, marked_opt |-> marked]
         ELSE OptionalGroupsLoop(ls, t, str_to_idx, i + 1,
                 Append(groups, [general |-> GroupSide(names, ls, str_to_idx, "Free"),
                                 post |-> GroupSide(names, ls, str_to_idx, "Post"),
                                 weight |-> ls[i].rf_line.weight]),
                 marked \cup names)
    ELSE OptionalGroupsLoop(ls, t, str_to_idx, i + 1, groups, marked)

build_optional_groups(ls, t, str_to_idx) ==
    OptionalGroupsLoop(ls, t, str_to_idx, 1, <<>>, {})

\* an apply_force_required that leaves the groups as they are
RemoveFromGroup_Keeps(group, names, ls, str_to_idx) == group

\* group.get_set(req_line.timing).remove(req) for every name of names
RemoveFromGroup(group, names, ls, str_to_idx) ==
    [general |-> group.general \ GroupSide(names, ls, str_to_idx, "Free"),
     post |-> group.post \ GroupSide(names, ls, str_to_idx, "Post"),
     weight |-> group.weight]

\* an apply_force_required that leaves marked_opt as it is
Unmark_Nothing(marked, names) == marked

\* marked_opt.remove(req) for every name of names
Unmark(marked, names) == marked \ names

RECURSIVE ForceRequiredLoop(_, _, _, _, _, _)
\* the loop of apply_force_required
ForceRequiredLoop(ls, t, str_to_idx, i, groups, marked) ==
    IF i > Len(ls) THEN [panic |-> FALSE, optional |-> groups, marked_opt |-> marked]
    ELSE IF ls[i].rf_line.variant = "ForceRequired" /\ IsReqLine(ls[i])
    THEN LET names == ClosureOf(ls, t, i) IN
         IF \E n \in names : n \notin DOMAIN str_to_idx
         THEN [panic |-> TRUE, optional |-> groups, marked_opt |-> marked]
         ELSE ForceRequiredLoop(ls, t, str_to_idx, i + 1,
                 [g \in DOMAIN groups |->
                     RemoveFromGroup(groups[g], names, ls, str_to_idx)],
                 Unmark(marked, names))
    ELSE ForceRequiredLoop(ls, t, str_to_idx, i + 1, groups, marked)

apply_force_required(ls, t, str_to_idx, groups, marked) ==
    ForceRequiredLoop(ls, t, str_to_idx, 1, groups, marked)

\* a collect_required_reqs that does not look at marked_opt
IsCollected_IgnoresMarked(ls, marked, i) == IsReqLine(ls[i])

\* whether collect_required_reqs pushes the line at i
IsCollected(ls, marked, i) ==
    IsReqLine(ls[i]) /\ name_or_default(ls[i].rf_line.base.req) \notin marked

\* a collect_required_reqs that pushes the lines from the last to the first
CollectLoop_Reversed(ls, marked, timing, i) ==
    LET S == {j \in i..Len(ls) : IsCollected(ls, marked, j) /\ ls[j].timing = timing}
    IN [k \in 1..Cardinality(S) |->
           ls[CHOOSE j \in S : Cardinality({m \in S : m >= j}) = k].rf_line.base.req]

RECURSIVE CollectLoop(_, _, _, _)
\* one of the two vectors of collect_required_reqs
CollectLoop(ls, marked, timing, i) ==
    IF i > Len(ls) THEN <<>>
    ELSE (IF IsCollected(ls, marked, i) /\ ls[i].timing = timing
          THEN <<ls[i].rf_line.base.req>> ELSE <<>>)
         \o CollectLoop(ls, marked, timing, i + 1)

collect_required_reqs(ls, marked) ==
    [general |-> CollectLoop(ls, marked, "Free", 1),
     post |-> CollectLoop(ls, marked, "Post", 1)]

-----------------------------------------------------------------------------
(* The inputs of the model *)

Atom(reducability, value, stats) ==
    [reducability |-> reducability, value |-> value, stats |-> stats]

Clause(clause_type, atoms) == [clause_type |-> clause_type, atoms |-> atoms]

Requirement(name, prereqs, clauses) ==
    [name |-> name, prereqs |-> prereqs, clauses |-> clauses]

\* "90 FTD": one AND clause of one strict atom
BodyFtd == <<Clause("And", {Atom("Strict", 90, {"Fortitude"})})>>

\* "25r STR": one AND clause of one reducible atom
BodyStrAnd == <<Clause("And", {Atom("Reducible", 25, {"Strength"})})>>

\* "25 STR OR 25 STR": one OR clause, whose two equal atoms are one in the
\* BTreeSet; it displays as "25r STR" too
BodyStrOr == <<Clause("Or", {Atom("Reducible", 25, {"Strength"})})>>

\* "()"
BodyEmpty == <<>>

\* "25 STR OR 40 FTD": one OR clause of two reducible atoms
BodyOr == <<Clause("Or", {Atom("Reducible", 25, {"Strength"}),
                          Atom("Reducible", 40, {"Fortitude"})})>>

Blank == [kind |-> "Blank"]
FreeDirective == [kind |-> "Free"]
PostDirective == [kind |-> "Post"]
BadLine == [kind |-> "Bad"]
Line(rf_line) == [kind |-> "Line", rf_line |-> rf_line]

\* the three annotations of a base line b, as raw lines
Marked(b, marks) ==
    {Line(Unspecified(b)) : x \in marks \cap {"U"}}
    \cup {Line(ForceRequired(b)) : x \in marks \cap {"F"}}
    \cup {Line(OptionalLine(b, 1)) : x \in marks \cap {"O"}}
    \cup {Line(OptionalLine(b, 2)) : x \in marks \cap {"O2"}}

Def(name, prereqs, clauses) == ReqBase(Requirement(name, prereqs, clauses))

\* Spec: definitions with inline prerequisites (a chain a <- b <- c and a
\* prerequisite a shared by b and c), optional and forced lines, anonymous
\* definitions, two of the same textual form, and the POST and FREE
\* directives
OptAlphabet ==
    Marked(Def("a", <<>>, BodyFtd), {"U", "O", "F"})
    \cup Marked(Def("b", <<"a">>, BodyFtd), {"U", "O", "F"})
    \cup Marked(Def("c", <<"a">>, BodyFtd), {"U", "O2"})
    \cup Marked(Def("c", <<"b">>, BodyFtd), {"U", "O2"})
    \cup Marked(Def(NoName, <<>>, BodyStrAnd), {"U", "O", "F"})
    \cup Marked(Def(NoName, <<>>, BodyStrOr), {"U"})
    \cup Marked(Def(NoName, <<"a">>, BodyFtd), {"U", "O"})
    \cup {PostDirective, FreeDirective}

GraphNames == {"a", "b", "c"}

\* SpecGraph: every prerequisite graph on a, b, c with at most two
\* prerequisites per definition, d being a name no line defines
GraphAlphabet ==
    UNION {Marked(Def(n, ps, BodyFtd), {"U"}) :
             n \in GraphNames,
             ps \in {<<>>, <<"a">>, <<"b">>, <<"c">>, <<"b", "c">>, <<"d">>}}
    \cup Marked(Def("a", <<"b">>, BodyFtd), {"O"})
    \cup Marked(Def("b", <<"c">>, BodyFtd), {"O"})
    \cup Marked(Def("c", <<"a">>, BodyFtd), {"O"})

\* SpecDeps: definitions of a, b (no prerequisites) and c (inline
\* prerequisite a), and the dependency statements over them; d is undefined;
\* a blank line and a line that does not parse
DepsAlphabet ==
    Marked(Def("a", <<>>, BodyFtd), {"U"})
    \cup Marked(Def("b", <<>>, BodyStrAnd), {"U"})
    \cup Marked(Def("c", <<"a">>, BodyFtd), {"U"})
    \cup UNION {Marked(DepBase(ps, d), {"U"}) :
                  ps \in {<<"a">>, <<"b">>, <<"c">>, <<"a", "b">>, <<"d">>},
                  d \in GraphNames}
    \cup Marked(DepBase(<<"a">>, "d"), {"U"})
    \cup Marked(DepBase(<<"a">>, "b"), {"O"})
    \cup {Blank, BadLine}

\* SpecTree: the requirements handed to ReqTree::insert
TreeReqs ==
    {Requirement(n, ps, BodyFtd) :
        n \in GraphNames, ps \in SeqsUpTo(GraphNames, 2) \cup {<<"d">>}}
    \cup {Requirement(NoName, ps, BodyFtd) : ps \in {<<>>, <<"a">>}}

-----------------------------------------------------------------------------
(* The compiler as a state machine *)

\* no Requirement method has been called
NoCall == [op |-> "none"]

\* no shrine_order_dwb is running
NoShrine == [pc |-> "none"]

\* no call beside the compiler has been made
InitCalls == payload = NoResult /\ call = NoCall /\ shrine = NoShrine

InitOn(alphabet) ==
    /\ content \in SeqsUpTo(alphabet, MaxLines)
    /\ pc = "parse_reqfile_str"
    /\ lines = <<>>
    /\ index = EmptyMap
    /\ tree = NewTree
    /\ optional = <<>>
    /\ marked_opt = {}
    /\ result = NoResult
    /\ cycle = NoCycle
    /\ inserts = 0
    /\ InitCalls

Init == InitOn(OptAlphabet)

InitGraph == InitOn(GraphAlphabet)

InitDeps == InitOn(DepsAlphabet)

\* a stage that failed: the compiler returns its error
Fail(err) == /\ result' = err
             /\ pc' = "done"

\* parse_reqfile_str up to its call of validate_and_transform
ParseReqfileStr ==
    /\ pc = "parse_reqfile_str"
    /\ LET r == parse_reqfile_str(content) IN
         IF r.err # NoResult
         THEN Fail(r.err) /\ UNCHANGED lines
         ELSE lines' = r.lines /\ pc' = "build_index" /\ UNCHANGED result
    /\ UNCHANGED <<content, index, tree, optional, marked_opt, cycle, inserts, callVars>>

BuildIndex ==
    /\ pc = "build_index"
    /\ LET r == build_index(lines) IN
         IF r.err # NoResult
         THEN Fail(r.err) /\ UNCHANGED index
         ELSE index' = r.index /\ pc' = "validate_no_ambiguous_anonymous"
              /\ UNCHANGED result
    /\ UNCHANGED <<content, lines, tree, optional, marked_opt, cycle, inserts, callVars>>

ValidateNoAmbiguousAnonymous ==
    /\ pc = "validate_no_ambiguous_anonymous"
    /\ LET r == validate_no_ambiguous_anonymous(lines) IN
         IF r # NoResult
         THEN Fail(r)
         ELSE pc' = "resolve_dependencies" /\ UNCHANGED result
    /\ UNCHANGED <<content, lines, index, tree, optional, marked_opt, cycle, inserts, callVars>>

ResolveDependencies ==
    /\ pc = "resolve_dependencies"
    /\ LET r == resolve_dependencies(lines, index) IN
         IF r.err # NoResult
         THEN Fail(r.err) /\ UNCHANGED lines
         ELSE lines' = r.lines /\ pc' = "build_req_tree" /\ UNCHANGED result
    /\ UNCHANGED <<content, index, tree, optional, marked_opt, cycle, inserts, callVars>>

BuildReqTree ==
    /\ pc = "build_req_tree"
    /\ tree' = build_req_tree(lines)
    /\ pc' = "validate_tree"
    /\ UNCHANGED <<content, lines, index, optional, marked_opt, result, cycle, inserts, callVars>>

ValidateTree ==
    /\ pc = "validate_tree"
    /\ \E r \in validate_tree(lines, tree, index.str_to_idx) :
         IF r # NoResult
         THEN Fail(r)
         ELSE pc' = "build_optional_groups" /\ UNCHANGED result
    /\ UNCHANGED <<content, lines, index, tree, optional, marked_opt, cycle, inserts, callVars>>

BuildOptionalGroups ==
    /\ pc = "build_optional_groups"
    /\ LET r == build_optional_groups(lines, tree, index.str_to_idx) IN
         IF r.panic
         THEN Fail(Panic) /\ UNCHANGED <<optional, marked_opt>>
         ELSE /\ optional' = r.optional
              /\ marked_opt' = r.marked_opt
              /\ pc' = "apply_force_required"
              /\ UNCHANGED result
    /\ UNCHANGED <<content, lines, index, tree, cycle, inserts, callVars>>

ApplyForceRequired ==
    /\ pc = "apply_force_required"
    /\ LET r == apply_force_required(lines, tree, index.str_to_idx, optional, marked_opt) IN
         IF r.panic
         THEN Fail(Panic) /\ UNCHANGED <<optional, marked_opt>>
         ELSE /\ optional' = r.optional
              /\ marked_opt' = r.marked_opt
              /\ pc' = "collect_required_reqs"
              /\ UNCHANGED result
    /\ UNCHANGED <<content, lines, index, tree, cycle, inserts, callVars>>

\* collect_required_reqs and the Ok(Reqfile { .. }) of validate_and_transform
CollectRequiredReqs ==
    /\ pc = "collect_required_reqs"
    /\ LET r == collect_required_reqs(lines, marked_opt) IN
         result' = Ok([general |-> r.general, post |-> r.post, optional |-> optional])
    /\ pc' = "done"
    /\ UNCHANGED <<content, lines, index, tree, optional, marked_opt, cycle, inserts, callVars>>

Next ==
    \/ ParseReqfileStr
    \/ BuildIndex
    \/ ValidateNoAmbiguousAnonymous
    \/ ResolveDependencies
    \/ BuildReqTree
    \/ ValidateTree
    \/ BuildOptionalGroups
    \/ ApplyForceRequired
    \/ CollectRequiredReqs

Spec == Init /\ [][Next]_vars

SpecGraph == InitGraph /\ [][Next]_vars

SpecDeps == InitDeps /\ [][Next]_vars

-----------------------------------------------------------------------------
(* gen_reqfile, and the text it writes read back by the parser *)

\* the closure clean_name of gen_reqfile: every name the parser lets into a
\* Reqfile is an identifier (letters, digits and '_'), which holds none of
\* the characters clean_name removes or replaces
clean_name(name) == name

\* the text of an atom: its value, its reducability marker and its stats
AtomText(atom) ==
    [value |-> atom.value, marker |-> ReducabilityStr(atom.reducability),
     stats |-> SortStats(atom.stats)]

RECURSIVE Flatten(_)
Flatten(seqs) == IF seqs = <<>> THEN <<>> ELSE Head(seqs) \o Flatten(Tail(seqs))

\* the text of a clause, as the comma-separated items a reader of it sees:
\* the atoms of an AND clause are joined by ", " and so are an item each, the
\* atoms of an OR clause are joined by " OR " and are one item
ClauseText(clause) ==
    LET atoms == SelectSeq(SortAtoms(clause.atoms), LAMBDA a : ~AtomIsEmpty(a))
        texts == [k \in DOMAIN atoms |-> AtomText(atoms[k])]
    IN IF clause.clause_type = "And"
       THEN [k \in DOMAIN texts |-> <<texts[k]>>]
       ELSE <<texts>>

\* the text of a requirement: "<prereqs> => ", "<name> := ", and "()" or the
\* texts of its non-empty clauses joined by ", "
ReqText(req) ==
    [prereqs |-> req.prereqs,
     name |-> req.name,
     unit |-> ReqIsEmpty(req),
     items |-> IF ReqIsEmpty(req) THEN <<>>
               ELSE LET clauses == SelectSeq(req.clauses, LAMBDA c : ~ClauseIsEmpty(c))
                    IN Flatten([k \in DOMAIN clauses |-> ClauseText(clauses[k])])]

\* ParsedAtom::into_atom of an atom text, whose marker is always written
into_atom(text) ==
    Atom(IF text.marker = "s" THEN "Strict" ELSE "Reducible", text.value, Range(text.stats))

\* clause_inner: one atom is an AND clause, atoms joined by OR an OR clause
clause_inner(item) ==
    IF Len(item) = 1
    THEN Clause("And", {into_atom(item[1])})
    ELSE Clause("Or", {into_atom(item[k]) : k \in DOMAIN item})

\* parse_req of a requirement text
parse_req(text) ==
    Requirement(text.name, text.prereqs,
                IF text.unit THEN <<>>
                ELSE [k \in DOMAIN text.items |-> clause_inner(text.items[k])])

\* the first map of gen_reqfile: an anonymous requirement with
\* prerequisites is named id_<i>, i counting general and then post from 1
GenNames(reqs, offset) ==
    [k \in DOMAIN reqs |->
        [reqs[k] EXCEPT !.name =
            IF @ # NoName THEN @
            ELSE IF Len(reqs[k].prereqs) > 0 THEN "id_" \o ToString(offset + k)
            ELSE NoName]]

\* ReqVecExt::map_names(clean_name)
map_names(reqs) ==
    [k \in DOMAIN reqs |->
        [reqs[k] EXCEPT !.name = IF @ = NoName THEN @ ELSE clean_name(@),
                        !.prereqs = [j \in DOMAIN @ |-> clean_name(@[j])]]]

\* the lines gen_reqfile writes for reqs, as reqfile_line reads them: a
\* written requirement always has a body, so it is an unannotated definition
GenLines(reqs) ==
    [k \in DOMAIN reqs |-> Line(Unspecified(ReqBase(parse_req(ReqText(reqs[k])))))]

\* gen_reqfile: a comment, a blank line, "Free:", general, and when post is
\* not empty a blank line, "Post:" and post
gen_reqfile(reqfile) ==
    LET general == map_names(GenNames(reqfile.general, 0))
        post == map_names(GenNames(reqfile.post, Len(reqfile.general)))
    IN <<Blank, Blank, FreeDirective>> \o GenLines(general)
       \o (IF post # <<>> THEN <<Blank, PostDirective>> \o GenLines(post) ELSE <<>>)

\* SpecGen: named and anonymous definitions, with and without prerequisites,
\* the empty requirement, an OR clause of two atoms and one of one atom, a
\* dependency statement, an optional line, a force-required line and the
\* POST directive
GenAlphabet ==
    Marked(Def("a", <<>>, BodyFtd), {"U", "F"})
    \cup Marked(Def("b", <<>>, BodyEmpty), {"U"})
    \cup Marked(Def("c", <<"a">>, BodyFtd), {"U", "O"})
    \cup Marked(Def(NoName, <<>>, BodyStrAnd), {"U"})
    \cup Marked(Def(NoName, <<>>, BodyOr), {"U"})
    \cup Marked(Def(NoName, <<>>, BodyStrOr), {"U"})
    \cup Marked(Def(NoName, <<>>, BodyEmpty), {"U"})
    \cup Marked(Def(NoName, <<"a">>, BodyFtd), {"U"})
    \cup Marked(DepBase(<<"a">>, "b"), {"U"})
    \cup {PostDirective}

InitGen == InitOn(GenAlphabet)

\* gen_reqfile(&payload), whose text parse_reqfile_str then compiles
GenReqfile ==
    /\ pc = "done"
    /\ result.kind = "Ok"
    /\ payload = NoResult
    /\ payload' = result.reqfile
    /\ content' = gen_reqfile(result.reqfile)
    /\ pc' = "parse_reqfile_str"
    /\ lines' = <<>>
    /\ index' = EmptyMap
    /\ tree' = NewTree
    /\ optional' = <<>>
    /\ marked_opt' = {}
    /\ result' = NoResult
    /\ UNCHANGED <<cycle, inserts, call, shrine>>

NextGen == Next \/ GenReqfile

SpecGen == InitGen /\ [][NextGen]_vars

-----------------------------------------------------------------------------
(* A ReqTree built directly through its API *)

InitTree ==
    /\ content = <<>>
    /\ pc = "tree"
    /\ lines = <<>>
    /\ index = EmptyMap
    /\ tree = NewTree
    /\ optional = <<>>
    /\ marked_opt = {}
    /\ result = NoResult
    /\ cycle = NoCycle
    /\ inserts = 0
    /\ InitCalls

\* tree.insert(req)
TreeInsertCall ==
    /\ pc \in {"tree", "tree_checked"}
    /\ inserts < MaxInserts
    /\ \E req \in TreeReqs : tree' = TreeInsert(tree, req)
    /\ inserts' = inserts + 1
    /\ pc' = "tree"
    /\ cycle' = NoCycle
    /\ UNCHANGED <<content, lines, index, optional, marked_opt, result, callVars>>

\* tree.find_cycle()
TreeFindCycleCall ==
    /\ pc = "tree"
    /\ cycle' \in FindCycleAnswers(tree)
    /\ pc' = "tree_checked"
    /\ UNCHANGED <<content, lines, index, tree, optional, marked_opt, result, inserts, callVars>>

NextTree == TreeInsertCall \/ TreeFindCycleCall

SpecTree == InitTree /\ [][NextTree]_vars

-----------------------------------------------------------------------------
(* Requirement methods called directly on requirements built with *)
(* Requirement::new, add_clause and name                          *)

\* the compiler and the tree are not in use
CompilerIdle ==
    /\ content = <<>>
    /\ pc = "idle"
    /\ lines = <<>>
    /\ index = EmptyMap
    /\ tree = NewTree
    /\ optional = <<>>
    /\ marked_opt = {}
    /\ result = NoResult
    /\ cycle = NoCycle
    /\ inserts = 0

AtomStr25 == Atom("Reducible", 25, {"Strength"})

\* an atom over two stats
AtomSum40 == Atom("Strict", 40, {"Strength", "Frostdraw"})

\* an atom over Stat::Total
AtomTotal45 == Atom("Reducible", 45, {"Total"})

\* Atom::new(Strict) with no stat and value 0
AtomNone == Atom("Strict", 0, {})

\* the clauses handed to add_clause; Clause::and() and Clause::or() have no atom
CallClauses ==
    { Clause("And", {AtomStr25, AtomSum40}),
      Clause("Or", {AtomStr25, AtomTotal45}),
      Clause("And", {}),
      Clause("Or", {}),
      Clause("And", {AtomNone}) }

CallReqs ==
    {Requirement(n, <<>>, cs) : n \in {NoName, "a"}, cs \in SeqsUpTo(CallClauses, MaxClauses)}

\* the keys and the values of the StatMaps handed to satisfied_by
CallStats == {"Strength", "Frostdraw", "Flamecharm", "Total"}

CallValues == {0, 15, 30}

CallStatMaps == UNION {[D -> CallValues] : D \in SUBSET CallStats}

NewCall(req, other, stats) ==
    [op |-> "new", req |-> req, other |-> other, stats |-> stats, ret |-> <<>>]

InitReq ==
    /\ CompilerIdle
    /\ payload = NoResult
    /\ shrine = NoShrine
    /\ call \in {NewCall(r, r, m) : r \in CallReqs, m \in CallStatMaps}
               \cup {NewCall(r, o, EmptyMap) : r \in CallReqs, o \in CallReqs}

\* req.satisfied_by(&stats)
SatisfiedByCall ==
    /\ call.op = "new"
    /\ call' = [call EXCEPT !.op = "satisfied_by",
                            !.ret = <<satisfied_by(call.req, call.stats)>>]
    /\ UNCHANGED <<content, pc, lines, index, tree, optional, marked_opt, result, cycle,
                   inserts, payload, shrine>>

\* req.is_empty()
IsEmptyCall ==
    /\ call.op = "new"
    /\ call' = [call EXCEPT !.op = "is_empty", !.ret = <<ReqIsEmpty(call.req)>>]
    /\ UNCHANGED <<content, pc, lines, index, tree, optional, marked_opt, result, cycle,
                   inserts, payload, shrine>>

\* req == other
EqCall ==
    /\ call.op = "new"
    /\ call' = [call EXCEPT !.op = "eq", !.ret = <<ReqEq(call.req, call.other)>>]
    /\ UNCHANGED <<content, pc, lines, index, tree, optional, marked_opt, result, cycle,
                   inserts, payload, shrine>>

NextReq == SatisfiedByCall \/ IsEmptyCall \/ EqCall

SpecReq == InitReq /\ [][NextReq]_vars

-----------------------------------------------------------------------------
(* util/algos.rs: shrine_order_dwb, one action per stage of its body *)

SHRINE_DIFF_CAP == 25

STAT_CAP == 100

\* An f64 of the function is kept as the exact fraction n/d it stands for
\* and a flag x telling that the f64 holds exactly that fraction.  The values
\* of the function are sums, differences and quotients of integers below
\* 2^53: an operation on exact operands whose result is a dyadic fraction is
\* exact, every other result is the fraction up to a rounding error far
\* smaller than 1/d.
RECURSIVE Gcd(_, _)
Gcd(a, b) == IF b = 0 THEN a ELSE Gcd(b, a % b)

Abs(n) == IF n < 0 THEN -n ELSE n

RECURSIVE IsPow2(_)
IsPow2(d) == d = 1 \/ (d % 2 = 0 /\ IsPow2(d \div 2))

F64(n, d, x) ==
    LET g == Gcd(Abs(n), d)
    IN [n |-> n \div g, d |-> d \div g, x |-> x /\ IsPow2(d \div g)]

\* `value as f64`
FromInt(k) == [n |-> k, d |-> 1, x |-> TRUE]

FAdd(a, b) == F64(a.n * b.d + b.n * a.d, a.d * b.d, a.x /\ b.x)

FSub(a, b) == F64(a.n * b.d - b.n * a.d, a.d * b.d, a.x /\ b.x)

\* a division that leaves the dividend as it is
FDiv_NoDivide(a, k) == a

\* division by `count as f64`
FDiv(a, k) == F64(a.n, a.d * k, a.x)

RECURSIVE FSum(_, _)
\* the f64 sum of f over the keys in S
FSum(f, S) ==
    IF S = {} THEN FromInt(0)
    ELSE LET k == CHOOSE y \in S : TRUE IN FAdd(f[k], FSum(f, S \ {k}))

\* a rounding that goes up
FloorOutcomes_Ceil(v) == {-((-v.n) \div v.d)}

\* the answers `value.floor() as i64` can give: the floor of the fraction,
\* and for a rounded f64 that stands for an integer k either k or k - 1
FloorOutcomes(v) == IF v.x \/ v.d # 1 THEN {v.n \div v.d} ELSE {v.n, v.n - 1}

\* a comparison that never finds a stat beyond the cap
ExceedsCap_Never(v) == {FALSE}

\* the answers `v > SHRINE_DIFF_CAP` can give: the comparison of the
\* fraction, and either answer for a rounded f64 that stands for the cap
ExceedsCap(v) ==
    IF v.x \/ v.n # SHRINE_DIFF_CAP * v.d THEN {v.n > SHRINE_DIFF_CAP * v.d}
    ELSE {TRUE, FALSE}

\* every stat of pre with a positive value, whatever racial holds
AffectedStats_AllPositive(pre, racial) == {s \in DOMAIN pre : pre[s] > 0}

\* affected_stats after the first loop over pre; the order of the Vec only
\* orders f64 additions, which the flag x already covers
AffectedStats(pre, racial) ==
    {s \in DOMAIN pre :
        /\ pre[s] > 0
        /\ ~(get(racial, s) > 0 /\ pre[s] - get(racial, s) <= 0)}

RECURSIVE TopUpLoop(_, _, _, _)
\* the while loop that hands the spare points out; free is the affected,
\* not bottlenecked stats
TopUpLoop(res, spare_points, free, bottlenecked_divide_by) ==
    IF bottlenecked_divide_by > 0 /\ spare_points >= bottlenecked_divide_by
    THEN LET raised == {s \in free : get(res, s) < STAT_CAP} IN
         IF raised = {} THEN res
         ELSE TopUpLoop([s \in DOMAIN res |-> IF s \in raised THEN res[s] + 1 ELSE res[s]],
                        spare_points - Cardinality(raised), free, bottlenecked_divide_by)
    ELSE res

\* the stats and the values of the StatMaps handed to shrine_order
ShrineStats == {"Strength", "Fortitude", "Frostdraw", "Flamecharm"}

PreValues == {0, 1, 40, 100}

RacialValues == {2, 60}

PreMaps == UNION {[D -> PreValues] : D \in SUBSET ShrineStats}

RacialMaps == UNION {[D -> RacialValues] : D \in SUBSET ShrineStats}

InitShrine ==
    /\ CompilerIdle
    /\ payload = NoResult
    /\ call = NoCall
    /\ shrine \in {[pc |-> "shrine_order_dwb", pre |-> p, racial |-> r] :
                        p \in PreMaps, r \in RacialMaps}

\* lines 23-61: points_start, work, affected_stats, the average
ShrineStart ==
    /\ shrine.pc = "shrine_order_dwb"
    /\ LET pre == shrine.pre
           racial == shrine.racial
           affected_stats == AffectedStats(pre, racial)
           divide_by == Cardinality(affected_stats)
           total == FromInt(SumOver([s \in affected_stats |->
                                        pre[s] - Max(get(racial, s), 0)], affected_stats))
           work == [s \in DOMAIN pre |->
                       IF s \in affected_stats THEN FDiv(total, divide_by)
                       ELSE FromInt(pre[s])]
       IN shrine' = [pc |-> IF divide_by = 0 THEN "return" ELSE "first_pass",
                     pre |-> pre, racial |-> racial,
                     points_start |-> cost(pre),
                     affected_stats |-> affected_stats,
                     work |-> work, prev |-> work,
                     bottlenecked |-> {},
                     bottlenecked_divide_by |-> divide_by,
                     bottlenecked_points |-> FromInt(0),
                     floored |-> pre,
                     result |-> pre,
                     rounds |-> 0,
                     spare_points |-> 0]
    /\ UNCHANGED <<content, pc, lines, index, tree, optional, marked_opt, result, cycle,
                   inserts, payload, call>>

\* lines 64-89: the stats that fell more than the cap are put back to the cap
ShrineFirstPass ==
    /\ shrine.pc = "first_pass"
    /\ LET pre == shrine.pre
           capped == {s \in shrine.affected_stats : ~is_attunement(s)}
           drop(s) == FSub(FromInt(get(pre, s)), shrine.work[s])
       IN \E hit \in SUBSET capped :
            /\ \A s \in capped : (s \in hit) \in ExceedsCap(drop(s))
            /\ LET new_val(s) == FSub(FromInt(get(pre, s)), FromInt(SHRINE_DIFF_CAP))
                   left == shrine.bottlenecked_divide_by
                               - Cardinality(hit \ shrine.bottlenecked)
               IN shrine' =
                    [shrine EXCEPT
                       !.work = [s \in DOMAIN shrine.work |->
                                    IF s \in hit THEN new_val(s) ELSE shrine.work[s]],
                       !.bottlenecked_points =
                            FSum([s \in hit |-> FSub(new_val(s), shrine.prev[s])], hit),
                       !.bottlenecked = shrine.bottlenecked \cup hit,
                       !.bottlenecked_divide_by = left,
                       !.rounds = shrine.rounds + 1,
                       !.pc = IF left <= 0 THEN "floor" ELSE "second_pass"]
    /\ UNCHANGED <<content, pc, lines, index, tree, optional, marked_opt, result, cycle,
                   inserts, payload, call>>

\* lines 91-115: the points put back are taken from the other affected stats
ShrineSecondPass ==
    /\ shrine.pc = "second_pass"
    /\ LET spread == FDiv(shrine.bottlenecked_points, shrine.bottlenecked_divide_by)
           free == shrine.affected_stats \ shrine.bottlenecked
           next(s) == FSub(shrine.work[s], spread)
           watched == {s \in free : ~is_attunement(s)}
           drop(s) == FSub(FromInt(get(shrine.pre, s)), next(s))
           work == [s \in DOMAIN shrine.work |->
                       IF s \in free THEN next(s) ELSE shrine.work[s]]
       IN \E bottlenecked_stats \in BOOLEAN :
            /\ IF bottlenecked_stats
               THEN \E s \in watched : TRUE \in ExceedsCap(drop(s))
               ELSE \A s \in watched : FALSE \in ExceedsCap(drop(s))
            /\ shrine' = [shrine EXCEPT
                             !.work = work,
                             !.prev = work,
                             !.pc = IF bottlenecked_stats THEN "first_pass" ELSE "floor"]
    /\ UNCHANGED <<content, pc, lines, index, tree, optional, marked_opt, result, cycle,
                   inserts, payload, call>>

\* lines 118-127: the work values are floored into the result
ShrineFloor ==
    /\ shrine.pc = "floor"
    /\ LET keys == DOMAIN shrine.work
           answers == UNION {FloorOutcomes(shrine.work[s]) : s \in keys}
       IN \E res \in [keys -> answers] :
            /\ \A s \in keys : res[s] \in FloorOutcomes(shrine.work[s])
            /\ shrine' = [shrine EXCEPT !.floored = res, !.result = res,
                                        !.spare_points = shrine.points_start - cost(res),
                                        !.pc = "top_up"]
    /\ UNCHANGED <<content, pc, lines, index, tree, optional, marked_opt, result, cycle,
                   inserts, payload, call>>

\* lines 127-151: the spare points are handed out and the result returned
ShrineTopUp ==
    /\ shrine.pc = "top_up"
    /\ shrine' = [shrine EXCEPT
                     !.result = TopUpLoop(shrine.result,
                                          shrine.points_start - cost(shrine.result),
                                          shrine.affected_stats \ shrine.bottlenecked,
                                          shrine.bottlenecked_divide_by),
                     !.pc = "return"]
    /\ UNCHANGED <<content, pc, lines, index, tree, optional, marked_opt, result, cycle,
                   inserts, payload, call>>

\* a round of the top-up loop that keeps the spare points it hands out
SpareAfter_Kept(spare_points, raised) == spare_points

\* line 142, for every stat a round of the top-up loop raises
SpareAfter(spare_points, raised) == spare_points - Cardinality(raised)

\* lines 129-151, one round of the while loop at a time
ShrineTopUpRound ==
    /\ shrine.pc = "top_up"
    /\ LET raised == {s \in shrine.affected_stats \ shrine.bottlenecked :
                         get(shrine.result, s) < STAT_CAP}
       IN IF /\ shrine.bottlenecked_divide_by > 0
             /\ shrine.spare_points >= shrine.bottlenecked_divide_by
             /\ raised # {}
          THEN shrine' = [shrine EXCEPT
                            !.result = [s \in DOMAIN shrine.result |->
                                           IF s \in raised THEN shrine.result[s] + 1
                                           ELSE shrine.result[s]],
                            !.spare_points = SpareAfter(shrine.spare_points, raised)]
          ELSE shrine' = [shrine EXCEPT !.pc = "return"]
    /\ UNCHANGED <<content, pc, lines, index, tree, optional, marked_opt, result, cycle,
                   inserts, payload, call>>

NextShrine ==
    ShrineStart \/ ShrineFirstPass \/ ShrineSecondPass \/ ShrineFloor \/ ShrineTopUp

SpecShrine == InitShrine /\ [][NextShrine]_vars

\* the calls followed round by round
StepPreMaps == UNION {[D -> {1, 40, 100}] : D \in SUBSET {"Strength", "Fortitude", "Frostdraw"}}

StepRacialMaps == UNION {[D -> {60}] : D \in SUBSET {"Fortitude"}}

InitShrineSteps ==
    /\ CompilerIdle
    /\ payload = NoResult
    /\ call = NoCall
    /\ shrine \in {[pc |-> "shrine_order_dwb", pre |-> p, racial |-> r] :
                        p \in StepPreMaps, r \in StepRacialMaps}

NextShrineSteps ==
    ShrineStart \/ ShrineFirstPass \/ ShrineSecondPass \/ ShrineFloor \/ ShrineTopUpRound

\* the function is sequential code: a stage that can run does run
SpecShrineSteps ==
    InitShrineSteps /\ [][NextShrineSteps]_vars /\ WF_vars(NextShrineSteps)

-----------------------------------------------------------------------------
(* Vocabulary of the properties *)

Compiled == result.kind = "Ok"

DefLines == {i \in DOMAIN lines : IsReqLine(lines[i])}

DefReq(i) == lines[i].rf_line.base.req

DefName(i) == name_or_default(DefReq(i))

\* the entries of Reqfile.general and Reqfile.post
Required == Range(result.reqfile.general) \cup Range(result.reqfile.post)

GroupMembers(g) == g.general \cup g.post

NamesOf(reqs) == {name_or_default(r) : r \in reqs}

\* the names that definitions called n list as direct prerequisites
DirectPrereqs(n) == UNION {Range(DefReq(i).prereqs) : i \in {j \in DefLines : DefName(j) = n}}

RECURSIVE PrereqClosure(_)
PrereqClosure(S) ==
    LET more == S \cup UNION {DirectPrereqs(n) : n \in S}
    IN IF more = S THEN S ELSE PrereqClosure(more)

\* prereqs*(n), as the least set closed under DirectPrereqs
PrereqsStar(n) == PrereqClosure(DirectPrereqs(n))

\* dependents*(n): the names whose prereqs* holds n
DependentsStar(n) == {DefName(i) : i \in {j \in DefLines : n \in PrereqsStar(DefName(j))}}

OptionalDefs == {i \in DefLines : lines[i].rf_line.variant = "Optional"}

ForcedDefs == {i \in DefLines : lines[i].rf_line.variant = "ForceRequired"}

-----------------------------------------------------------------------------
(* C1 .. C4 *)

\* C1: in every compiled Reqfile no requirement (under Requirement's
\* equality) occurs in both general and post.
C1_GeneralPostDisjoint ==
    Compiled =>
        \A i \in DOMAIN result.reqfile.general : \A j \in DOMAIN result.reqfile.post :
            ~ReqEq(result.reqfile.general[i], result.reqfile.post[j])

\* C2: in every compiled Reqfile no member of an optional group appears in
\* general or post, by Requirement's equality and even by name alone.
C2_OptionalMembersNotRequired ==
    Compiled =>
        \A k \in DOMAIN result.reqfile.optional :
            \A m \in GroupMembers(result.reqfile.optional[k]) : \A r \in Required :
                ~ReqEq(m, r) /\ name_or_default(m) # name_or_default(r)

\* a compiled reqfile with an optional line and a forced line, a group that
\* kept a member and a requirement in general that was taken out of a group
C2_Witness ==
    /\ Compiled
    /\ OptionalDefs # {} /\ ForcedDefs # {}
    /\ \E k \in DOMAIN result.reqfile.optional :
          /\ GroupMembers(result.reqfile.optional[k]) # {}
          /\ \E i \in DOMAIN result.reqfile.general :
                name_or_default(result.reqfile.general[i]) \in
                    PrereqsStar(DefName(CHOOSE o \in OptionalDefs :
                        Cardinality({x \in OptionalDefs : x <= o}) = k))

\* C3: in every compiled Reqfile each direct prerequisite of a requirement
\* of general or post is itself in general or post.  The prerequisites are
\* those the file defines: the claim asks this of every prerequisite.
C3_RequiredPrereqsAreRequired ==
    Compiled =>
        \A r \in Required : \A p \in Range(r.prereqs) :
            p \in {DefName(i) : i \in DefLines} => p \in NamesOf(Required)

\* an explicitly optional named definition with a transitive dependent whose
\* own definition line is not explicitly optional
HasRequiredDependent ==
    \E i \in OptionalDefs :
        /\ DefReq(i).name # NoName
        /\ \E j \in DefLines :
              /\ DefName(j) \in DependentsStar(DefReq(i).name)
              /\ ~is_explicit_optional(lines[j].rf_line)

\* C4: when the prerequisite relation is resolved and an explicitly optional
\* named requirement has a dependent that is not explicitly optional, the
\* compiler ends with a ReqfileError.
C4_RequiredDependentIsError ==
    (pc = "done" /\ tree # NewTree /\ HasRequiredDependent) => result.kind = "Err"

-----------------------------------------------------------------------------
(* C5 .. C10 *)

DefinedNames == {DefName(i) : i \in DefLines}

\* the resolved prerequisite relation has a cycle
Cyclic == \E n \in DefinedNames : n \in PrereqsStar(n)

\* names, each with the next as a direct prerequisite and the last with the
\* first, no name twice
IsCycleList(c) ==
    /\ Len(c) >= 1
    /\ \A k \in DOMAIN c : c[k] \in DefinedNames
    /\ \A k \in DOMAIN c : c[(k % Len(c)) + 1] \in DirectPrereqs(c[k])
    /\ \A k, l \in DOMAIN c : c[k] = c[l] => k = l

\* the message holds "cycle" and then the reported names joined by " => "
CycleError ==
    /\ result.kind = "Err"
    /\ result.message = "Prereqs cannot be dependent on each other. Found cycle: "
                            \o JoinStr(result.names, " => ")

\* C5: once validate_tree has run on a prerequisite relation with a cycle,
\* the compiler has failed with the cycle error, and the names it reports
\* form a cycle of direct prerequisites.
C5_CycleIsReported ==
    (tree # NewTree /\ pc # "validate_tree" /\ Cyclic)
        => (CycleError /\ IsCycleList(result.names))

\* a reported cycle through all of a, b and c
C5_Witness ==
    /\ pc = "done" /\ Cyclic /\ CycleError
    /\ Len(result.names) = 3

\* a topological order of the tree's requirements: every prerequisite that
\* is a requirement of the tree comes before its dependent
TopologicalOrderExists(t) ==
    \E p \in Perms(DOMAIN t.reqs) :
        \A i, j \in DOMAIN p :
            p[j] \in Range(t.reqs[p[i]].prereqs) => j < i

\* C6: find_cycle returns None iff a topological order exists.
C6_FindCycleIffAcyclic ==
    pc = "tree_checked" => ((cycle = NoCycle) <=> TopologicalOrderExists(tree))

\* an acyclic tree of three requirements, one of them with two prerequisites
C6_Witness ==
    /\ pc = "tree_checked" /\ cycle = NoCycle
    /\ Cardinality(DOMAIN tree.reqs) = 3
    /\ \E n \in DOMAIN tree.reqs :
          /\ Len(tree.reqs[n].prereqs) = 2
          /\ Range(tree.reqs[n].prereqs) \subseteq DOMAIN tree.reqs
          /\ Cardinality(Range(tree.reqs[n].prereqs)) = 2

\* the k-th explicitly optional definition line
OptionalDef(k) == CHOOSE i \in OptionalDefs : Cardinality({j \in OptionalDefs : j <= i}) = k

\* prereqs*(R) and R for the definition line at i
RootClosure(i) == PrereqsStar(DefName(i)) \cup {DefName(i)}

ForcedNames == UNION {RootClosure(i) : i \in ForcedDefs}

KeptDefs(timing) ==
    {i \in DefLines : lines[i].timing = timing /\ DefName(i) \notin marked_opt}

\* seq lists the requirements of the lines idxs, one entry each, in order
ListsExactly(seq, idxs) ==
    /\ Len(seq) = Cardinality(idxs)
    /\ \A i \in idxs : seq[Cardinality({j \in idxs : j <= i})] = DefReq(i)

ParsedLines == parse_reqfile_str(content).lines

\* the dependency statements that target the name n
StatementsFor(n) ==
    {k \in DOMAIN lines : ~IsReqLine(lines[k]) /\ lines[k].rf_line.base.dependent = n}

\* C10: after resolve_dependencies a named definition that a dependency
\* statement targets has exactly the statement's prerequisites, wherever
\* the statement stands, and every other definition, and every other field
\* and line, is as parsed.
C10_StatementSetsPrereqs ==
    pc = "build_req_tree" =>
        /\ Len(lines) = Len(ParsedLines)
        /\ \A i \in DOMAIN lines :
              IF IsReqLine(lines[i])
              THEN /\ [lines[i] EXCEPT !.rf_line.base.req.prereqs = <<>>]
                        = [ParsedLines[i] EXCEPT !.rf_line.base.req.prereqs = <<>>]
                   /\ IF DefReq(i).name # NoName /\ StatementsFor(DefReq(i).name) # {}
                      THEN \A k \in StatementsFor(DefReq(i).name) :
                              DefReq(i).prereqs = lines[k].rf_line.base.prereqs
                      ELSE DefReq(i).prereqs = ParsedLines[i].rf_line.base.req.prereqs
              ELSE lines[i] = ParsedLines[i]

\* a statement with two prerequisites that stands before the definition it
\* targets
C10_Witness ==
    /\ pc = "build_req_tree"
    /\ \E i \in DefLines : \E k \in StatementsFor(DefReq(i).name) :
          /\ k < i
          /\ Len(lines[k].rf_line.base.prereqs) = 2
          /\ DefReq(i).prereqs = lines[k].rf_line.base.prereqs

-----------------------------------------------------------------------------
(* C11 .. C20 *)

\* the names of the named definitions
NamedDefs == {DefReq(i).name : i \in DefLines} \ {NoName}

\* the dependency statement lines
StatementLines == {k \in DOMAIN lines : ~IsReqLine(lines[k])}

AmbiguityError ==
    /\ result.kind = "Err"
    /\ result.message =
         "You may not have duplicate anonymous requirements if either of them have prerequisites"

\* resolve_dependencies has run and returned
ResolveRan ==
    /\ index # EmptyMap
    /\ pc \notin {"validate_no_ambiguous_anonymous", "resolve_dependencies"}
    /\ ~AmbiguityError

MissingPrereqError ==
    /\ result.kind = "Err"
    /\ result.message = "Prerequisite: no variable named"

\* C11: when a dependency statement P* => D with D defined fails on a
\* prerequisite p that names no definition, the name in the message
\* "Prerequisite: no variable named '<p>'" is a missing prerequisite of a
\* statement, not a defined name.
C11_MessageNamesMissingPrereq ==
    (ResolveRan /\ MissingPrereqError) =>
        /\ result.names[1] \notin NamedDefs
        /\ \E k \in StatementLines :
              result.names[1] \in Range(lines[k].rf_line.base.prereqs)

\* the named definitions that receive prerequisites more than once: from two
\* statements, or from a statement and an inline prefix
MultiplyAssigned ==
    {DefReq(i).name : i \in {j \in DefLines :
        /\ DefReq(j).name # NoName
        /\ \/ Cardinality(StatementsFor(DefReq(j).name)) >= 2
           \/ /\ StatementsFor(DefReq(j).name) # {}
              /\ Len(ParsedLines[j].rf_line.base.req.prereqs) > 0}}

\* every name of every dependency statement is a named definition
AllResolvable ==
    \A k \in StatementLines :
        /\ lines[k].rf_line.base.dependent \in NamedDefs
        /\ Range(lines[k].rf_line.base.prereqs) \subseteq NamedDefs

MultipleAssignmentError ==
    /\ result.kind = "Err"
    /\ result.message = "has multiple prerequisite assignments"

AnonDuplicates ==
    {pair \in DefLines \X DefLines :
        /\ pair[1] < pair[2]
        /\ DefReq(pair[1]).name = NoName /\ DefReq(pair[2]).name = NoName
        /\ ReqStr(DefReq(pair[1])) = ReqStr(DefReq(pair[2]))}

\* validate_no_ambiguous_anonymous has run and returned
AmbiguityCheckRan ==
    index # EmptyMap /\ pc # "validate_no_ambiguous_anonymous"

\* every prerequisite of every definition names a definition
PrereqsDefined == \A i \in DefLines : Range(DefReq(i).prereqs) \subseteq NamedDefs

\* C13: a file (all its prerequisites defined) with two anonymous
\* definitions of the same textual form, one of them with prerequisites,
\* does not compile, and anonymous duplicates without prerequisites are not
\* rejected for being duplicates.
C13_AmbiguousAnonymousIsError ==
    (pc = "done" /\ AmbiguityCheckRan /\ PrereqsDefined) =>
        /\ (\E pair \in AnonDuplicates :
               \/ Len(DefReq(pair[1]).prereqs) > 0
               \/ Len(DefReq(pair[2]).prereqs) > 0)
             => result.kind = "Err"
        /\ (\A i \in DefLines : DefReq(i).name = NoName => Len(DefReq(i).prereqs) = 0)
             => ~AmbiguityError

\* the raw line at the 1-based position l of the input is the line the
\* error of the compiler is about
IsOffendingLine(l) ==
    LET raw == content[l]
        msg == result.message
    IN CASE msg = "Parse error" -> raw.kind = "Bad"
         [] msg = "Duplicate identifier" ->
              /\ raw.kind = "Line" /\ raw.rf_line.base.type = "Requirement"
              /\ raw.rf_line.base.req.name = result.names[1]
         [] msg = "Optional annotations must be used at the requirement definition" ->
              /\ raw.kind = "Line" /\ raw.rf_line.base.type = "DependencyWithIdentifier"
              /\ raw.rf_line.variant # "Unspecified"
         [] msg \in {"Dependent: no variable named", "Prerequisite: no variable named",
                     "has multiple prerequisite assignments"} ->
              /\ raw.kind = "Line" /\ raw.rf_line.base.type = "DependencyWithIdentifier"
              /\ raw.rf_line.base.dependent = result.names[1]
         [] OTHER ->
              raw.kind = "Line" /\ raw.rf_line.base.type = "Requirement"

\* C14: every ReqfileError carries the 1-based number of the offending line
\* of the input text.
C14_ErrorLineIsOneBased ==
    result.kind = "Err" =>
        /\ result.line \in DOMAIN content
        /\ IsOffendingLine(result.line)

\* the timing in force at the 1-based position l of the input: that of the
\* most recent FREE/POST directive above it, Free if there is none
TimingAt(l) ==
    LET ds == {k \in 1..(l - 1) : content[k].kind \in {"Free", "Post"}} IN
    IF ds = {} THEN "Free"
    ELSE content[CHOOSE k \in ds : \A j \in ds : j <= k].kind

\* the requirement r is in the set or sequence range S, under Requirement's
\* equality
ReqIn(r, S) == \E x \in S : ReqEq(x, r)

\* the placement half of C15, for the definition line at i
PlacedByTiming(i) ==
    LET free == lines[i].timing = "Free" IN
    /\ ReqIn(DefReq(i), Range(result.reqfile.general)) => free
    /\ ReqIn(DefReq(i), Range(result.reqfile.post)) => ~free
    /\ DefName(i) \notin marked_opt =>
          ReqIn(DefReq(i), Range(IF free THEN result.reqfile.general
                                         ELSE result.reqfile.post))
    /\ \A k \in DOMAIN result.reqfile.optional :
          LET g == result.reqfile.optional[k] IN
          /\ ReqIn(DefReq(i), g.general) => free
          /\ ReqIn(DefReq(i), g.post) => ~free

\* C15: each definition has the timing of the most recent FREE/POST
\* directive above it (Free if none); a required definition is in general
\* iff that timing is Free and in post iff Post, a group member is in the
\* group's general set iff its own timing is Free and in its post set iff
\* Post, and general and post of one group are disjoint.
C15_TimingDecidesSide ==
    /\ \A i \in DOMAIN lines : lines[i].timing = TimingAt(lines[i].line_num + 1)
    /\ Compiled =>
          /\ \A i \in DefLines : PlacedByTiming(i)
          /\ \A k \in DOMAIN result.reqfile.optional :
                \A x \in result.reqfile.optional[k].general :
                    ~ReqIn(x, result.reqfile.optional[k].post)

\* the sequences xs and ys hold the same requirements, as sets under
\* Requirement's equality
SetEqual(xs, ys) ==
    /\ \A x \in Range(xs) : ReqIn(x, Range(ys))
    /\ \A y \in Range(ys) : ReqIn(y, Range(xs))

\* C16: for every compiled Reqfile R, parse_reqfile_str(gen_reqfile(R))
\* succeeds and its general and post are set-equal to those of R.
C16_GenRoundTrip ==
    (payload # NoResult /\ pc = "done") =>
        /\ result.kind = "Ok"
        /\ SetEqual(result.reqfile.general, payload.general)
        /\ SetEqual(result.reqfile.post, payload.post)


\* what the statement of satisfaction reads from a StatMap for one stat
Read(S, s) == IF s = "Total" THEN cost(S) ELSE IF s \in DOMAIN S THEN S[s] ELSE 0

\* the sum an atom asks for is reached
AtomHolds(a, S) == SumOver([s \in a.stats |-> Read(S, s)], a.stats) >= a.value

ClauseHolds(c, S) ==
    IF c.clause_type = "And"
    THEN \A a \in c.atoms : AtomHolds(a, S)
    ELSE \E a \in c.atoms : AtomHolds(a, S)

\* C17: R.satisfied_by(S) answers true exactly when every clause of R is
\* satisfied, an AND clause by all of its atoms and an OR clause by at least
\* one, an atom being satisfied when the sum of what it reads from S (the cost
\* of S for Total, the stored value or 0 for any other stat) reaches its value.
C17_SatisfiedByReadsCostAndValues ==
    call.op = "satisfied_by" =>
        call.ret[1] = (\A i \in DOMAIN call.req.clauses :
                          ClauseHolds(call.req.clauses[i], call.stats))

\* an OR clause satisfied only through the cost of a map that has no Total key
C17_Witness ==
    /\ call.op = "satisfied_by"
    /\ call.ret = <<TRUE>>
    /\ "Total" \notin DOMAIN call.stats
    /\ get(call.stats, "Strength") < 25
    /\ \E i \in DOMAIN call.req.clauses :
          /\ call.req.clauses[i].clause_type = "Or"
          /\ AtomTotal45 \in call.req.clauses[i].atoms


\* the explicit name, or the textual form of an anonymous requirement
DisplayOrName(r) == IF r.name # NoName THEN r.name ELSE ReqStr(r)

\* C18: two Requirements compare equal exactly when their clause sets match,
\* clause order and repetition ignored, and their display-or-name strings
\* match.
C18_EqualIffClauseSetsAndNamesMatch ==
    call.op = "eq" =>
        call.ret[1] = (/\ Range(call.req.clauses) = Range(call.other.clauses)
                       /\ DisplayOrName(call.req) = DisplayOrName(call.other))


\* r has no clause containing a non-empty atom
RequiresNothing(r) ==
    \A i \in DOMAIN r.clauses : \A a \in r.clauses[i].atoms : a.stats = {} /\ a.value = 0

\* C19: a requirement that has no clause containing a non-empty atom is
\* satisfied by every StatMap, whatever the types of its clauses.
C19_EmptyIsSatisfied ==
    (call.op = "satisfied_by" /\ RequiresNothing(call.req)) => call.ret = <<TRUE>>


\* the number of attunements a StatMap holds with a positive value
PositiveAttunements(m) == Cardinality({s \in DOMAIN m : is_attunement(s) /\ m[s] > 0})

\* C20: the StatMap shrine_order returns never costs more than the one it
\* was given, the cost being the sum of the values less one point for every
\* positive attunement after the first.
C20_ShrineOrderCostsNoMore ==
    shrine.pc = "return" => cost(shrine.result) <= cost(shrine.pre)

\* a call whose redistribution changed the number of positive attunements
\* and whose top-up loop then handed spare points out
C20_Witness ==
    /\ shrine.pc = "return"
    /\ PositiveAttunements(shrine.floored) # PositiveAttunements(shrine.pre)
    /\ shrine.result # shrine.floored


-----------------------------------------------------------------------------
(* C21 .. C30 *)

\* C21: no stat that is not an attunement comes back from shrine_order more
\* than 25 below its value in pre, whichever way the redistribution loop was
\* left.
C21_ShrineDiffCap ==
    shrine.pc = "return" =>
        \A s \in DOMAIN shrine.pre :
            ~is_attunement(s) => shrine.pre[s] - get(shrine.result, s) <= SHRINE_DIFF_CAP

\* a call that put one stat back to the cap and returned another stat, not an
\* attunement and not bottlenecked, floored below its value in pre
C21_Witness ==
    /\ shrine.pc = "return"
    /\ \E s \in shrine.bottlenecked : shrine.pre[s] - shrine.result[s] = SHRINE_DIFF_CAP
    /\ \E s \in shrine.affected_stats \ shrine.bottlenecked :
          /\ ~is_attunement(s)
          /\ shrine.work[s].d # 1
          /\ shrine.result[s] < shrine.pre[s]

\* C22: with every value of pre and racial in 0..100, no stat comes back from
\* shrine_order above 100, after the averaging, the redistribution and the
\* top-up loop.
C22_StatCap ==
    shrine.pc = "return" => \A s \in DOMAIN shrine.result : shrine.result[s] <= STAT_CAP

\* a call whose top-up loop raised a stat up to the cap
C22_Witness ==
    /\ shrine.pc = "return"
    /\ \E s \in shrine.affected_stats :
          shrine.floored[s] < STAT_CAP /\ shrine.result[s] = STAT_CAP

\* the stats shrine_order may change: positive in pre and not covered by a
\* positive racial value
Affected(pre, racial) ==
    {s \in DOMAIN pre :
        pre[s] > 0 /\ ~(get(racial, s) > 0 /\ pre[s] - get(racial, s) <= 0)}

\* the stats outside Affected come back as they were, on the same keys
FrameKept ==
    shrine.pc = "return" =>
        /\ DOMAIN shrine.result = DOMAIN shrine.pre
        /\ \A s \in DOMAIN shrine.pre \ Affected(shrine.pre, shrine.racial) :
              shrine.result[s] = shrine.pre[s]
        /\ Affected(shrine.pre, shrine.racial) = {} => shrine.result = shrine.pre

\* no stage of the function writes to pre or racial
InputsKept == shrine'.pre = shrine.pre /\ shrine'.racial = shrine.racial

\* C23: shrine_order changes only the affected stats, returns pre when no
\* stat is affected, and leaves pre and racial as they were.
C23_OnlyAffectedChange == []FrameKept /\ [][InputsKept]_vars

\* a call that changed a stat and returned another one, positive in pre but
\* covered by its racial value, unchanged
C23_Witness ==
    /\ shrine.pc = "return"
    /\ \E s \in DOMAIN shrine.pre : shrine.result[s] # shrine.pre[s]
    /\ \E s \in DOMAIN shrine.pre \ shrine.affected_stats : shrine.pre[s] > 0

\* the redistribution loop has run at most once more than there are affected stats
RoundsBounded ==
    "rounds" \in DOMAIN shrine =>
        shrine.rounds <= Cardinality(Affected(shrine.pre, shrine.racial)) + 1

\* a first pass after the first one bottlenecks a new stat, and a round of
\* the top-up loop that stays in the loop has fewer spare points left
LoopsProgress ==
    /\ (shrine.pc = "first_pass" /\ shrine.rounds >= 1) =>
            shrine'.bottlenecked_divide_by < shrine.bottlenecked_divide_by
    /\ (shrine.pc = "top_up" /\ shrine'.pc = "top_up") =>
            shrine'.spare_points < shrine.spare_points

\* C24: shrine_order always returns: the redistribution loop runs at most
\* |affected| + 1 times, every round after the first bottlenecking a new
\* stat, and every round of the spare-point loop that does not leave the
\* loop lowers spare_points.
C24_ShrineOrderTerminates ==
    /\ <>(shrine.pc = "return")
    /\ []RoundsBounded
    /\ [][LoopsProgress]_vars

\* a call that returned after two rounds of the redistribution loop and
\* at least one round of the top-up loop
C24_Witness ==
    /\ shrine.pc = "return"
    /\ shrine.rounds >= 2
    /\ shrine.result # shrine.floored

\* the stage that runs after the stage p when p does not fail
StageAfter(p) ==
    CASE p = "parse_reqfile_str" -> "build_index"
      [] p = "build_index" -> "validate_no_ambiguous_anonymous"
      [] p = "validate_no_ambiguous_anonymous" -> "resolve_dependencies"
      [] p = "resolve_dependencies" -> "build_req_tree"
      [] p = "build_req_tree" -> "validate_tree"
      [] p = "validate_tree" -> "build_optional_groups"
      [] p = "build_optional_groups" -> "apply_force_required"
      [] p = "apply_force_required" -> "collect_required_reqs"
      [] p = "collect_required_reqs" -> "done"
      [] OTHER -> "none"

\* a step of the compiler either hands over to the next stage with nothing
\* returned yet, or ends the compilation: with a failure, or after the last
\* stage with the Reqfile
StageOrder ==
    \/ /\ pc' = StageAfter(pc)
       /\ pc' # "done"
       /\ result' = NoResult
    \/ /\ pc' = "done"
       /\ IF result'.kind = "Ok" THEN pc = "collect_required_reqs"
          ELSE result'.kind \in {"Err", "Panic"}

\* a failure carries no Reqfile
ErrorHasNoReqfile == result.kind # "Ok" => "reqfile" \notin DOMAIN result

\* a file with both a cycle and an explicitly optional requirement that has a
\* dependent which is not, once past resolve_dependencies, ends with the
\* cycle error
CycleComesFirst ==
    (pc = "done" /\ tree # NewTree /\ Cyclic /\ HasRequiredDependent) => CycleError

\* C25: the stages run in a fixed order and the compiler stops at the first
\* one that fails, returning no Reqfile; the cycle check comes before the
\* check of optional requirements with required dependents.
C25_StagesRunInOrder ==
    /\ []ErrorHasNoReqfile
    /\ []CycleComesFirst
    /\ [][StageOrder]_vars

\* a file with a cycle through an explicitly optional requirement and a
\* dependent that is not optional, failed with the cycle error
C25_Witness ==
    /\ pc = "done"
    /\ Cyclic
    /\ HasRequiredDependent
    /\ CycleError

\* C26: in every compiled Reqfile there is one optional group per explicitly
\* optional definition line, and each group holds the requirement of the
\* line that created it, whatever force-required lines the file has.
C26_GroupKeepsItsRoot ==
    Compiled =>
        /\ Len(result.reqfile.optional) = Cardinality(OptionalDefs)
        /\ \A k \in DOMAIN result.reqfile.optional :
              ReqIn(DefReq(OptionalDef(k)), GroupMembers(result.reqfile.optional[k]))

\* every requirement a compiled Reqfile holds: general, post and the groups
Returned ==
    Required \cup UNION {GroupMembers(result.reqfile.optional[k]) :
                            k \in DOMAIN result.reqfile.optional}

\* C27: parse_reqfile_str ends with a Reqfile or a ReqfileError for every
\* text, and every prerequisite name of every requirement of a returned
\* Reqfile names a requirement the file defines.
C27_TotalAndPrereqsDefined ==
    pc = "done" =>
        /\ result.kind \in {"Ok", "Err"}
        /\ Compiled => \A r \in Returned : Range(r.prereqs) \subseteq DefinedNames

\* C28: two Requirements that compare equal have the same hash, also when
\* their clause order or their prerequisite lists differ.
C28_EqualRequirementsHashAlike ==
    (call.op = "eq" /\ call.ret = <<TRUE>>) => hash(call.req) = hash(call.other)

\* every insert so far brought a name of its own
DistinctNamesInserted == Cardinality(DOMAIN tree.reqs) = inserts

\* C29: in a ReqTree built by inserting requirements with pairwise distinct
\* names, y is among all_dependents(x) exactly when x is among all_prereqs(y),
\* for all inserted names x and y; when the tree is acyclic neither
\* all_prereqs(x) nor all_dependents(x) contains x.
C29_DependentsMirrorPrereqs ==
    (pc \in {"tree", "tree_checked"} /\ DistinctNamesInserted) =>
        \A x \in DOMAIN tree.reqs :
            /\ \A y \in DOMAIN tree.reqs :
                  y \in all_dependents(tree, x) <=> x \in all_prereqs(tree, y)
            /\ TopologicalOrderExists(tree) =>
                  /\ x \notin all_prereqs(tree, x)
                  /\ x \notin all_dependents(tree, x)

\* an acyclic chain of three requirements: the first is a transitive, not a
\* direct, prerequisite of the last
C29_Witness ==
    /\ pc \in {"tree", "tree_checked"} /\ DistinctNamesInserted
    /\ TopologicalOrderExists(tree)
    /\ \E x, y \in DOMAIN tree.reqs :
          /\ x \in all_prereqs(tree, y)
          /\ x \notin Range(tree.reqs[y].prereqs)
          /\ y \in all_dependents(tree, x)

\* the k-th smallest of a set of line numbers
Nth(S, k) == CHOOSE i \in S : Cardinality({j \in S : j <= i}) = k

\* the definition lines under the given timing that are not left optional
KeptLines(timing) ==
    {i \in DefLines : lines[i].timing = timing
                       /\ name_or_default(DefReq(i)) \notin marked_opt}

\* reqs holds the requirements of the lines S, in the order of the text
InTextOrder(reqs, S) ==
    /\ Len(reqs) = Cardinality(S)
    /\ \A k \in DOMAIN reqs : reqs[k] = DefReq(Nth(S, k))

\* the written requirement w is the text of r: its prerequisites, its body,
\* and its name when it has one
WrittenFrom(w, r) ==
    /\ w.prereqs = r.prereqs
    /\ ReqText(w).items = ReqText(r).items
    /\ r.name # NoName => w.name = r.name

\* the generated text: its requirement lines are general and then post, one
\* line each and in their order, general after "Free:" and before any
\* "Post:", post after "Post:"
GeneratedInOrder ==
    LET defs == {i \in DOMAIN content : content[i].kind = "Line"}
        free == {i \in DOMAIN content : content[i] = FreeDirective}
        post == {i \in DOMAIN content : content[i] = PostDirective}
        all == payload.general \o payload.post
    IN /\ Cardinality(defs) = Len(all)
       /\ Cardinality(free) = 1
       /\ \A k \in DOMAIN all :
             /\ WrittenFrom(content[Nth(defs, k)].rf_line.base.req, all[k])
             /\ \A f \in free : f < Nth(defs, k)
             /\ IF k <= Len(payload.general)
                THEN \A p \in post : Nth(defs, k) < p
                ELSE \E p \in post : p < Nth(defs, k)

\* C30: general and post of a compiled Reqfile hold their definition lines
\* in the order of the text, whatever statements, optional lines and
\* force-required lines stand between them, and gen_reqfile writes them in
\* that order, all of general under "Free:" before any of post under "Post:".
C30_TextOrderKept ==
    /\ Compiled => /\ InTextOrder(result.reqfile.general, KeptLines("Free"))
                   /\ InTextOrder(result.reqfile.post, KeptLines("Post"))
    /\ payload # NoResult => GeneratedInOrder

\* gen_reqfile has written a Reqfile that holds a general requirement and a
\* different post requirement
C30_Witness ==
    /\ payload # NoResult
    /\ pc = "parse_reqfile_str"
    /\ Len(payload.general) >= 1
    /\ Len(payload.post) >= 1
    /\ payload.general[1] # payload.post[1]

=============================================================================
